---- MODULE Spec2Model ----
(***************************************************************************)
(* A model of the BasicTable component (tanstack-table-demo): a data grid  *)
(* with drag-reorderable rows and columns, row selection, dynamic columns, *)
(* a two-level column popover (delete / sort) and toolbar actions.         *)
(*                                                                         *)
(* The state is the component's React state; every action is one event     *)
(* handler run to completion together with the render and the effects that *)
(* follow it.                                                              *)
(***************************************************************************)
EXTENDS Integers, Sequences, FiniteSets, TLC

VARIABLES
    data,              \* useState(() => makeData(20)): the row records, in order
    dynamicColumns,    \* useState([...]): the dynamic column descriptors, in order
    rowSelection,      \* useState({}): the keys of the selection mapping (all map to true)
    showPopover,       \* level-1 popover flag
    targetColumnId,    \* "col-<id>" the level-1 popover was opened on, or NULL
    showSortPopover,   \* level-2 popover flag
    sortColumnId,      \* "col-<id>" the level-2 popover was opened on, or NULL
    activeId,          \* useState(null): the identifier onDragStart recorded, or NULL
    dragging,          \* the DndContext's active draggable while a drag is in progress, or NULL
    listening,         \* the document has the mousedown listener of the effect
    engine,            \* the JavaScript engine the page runs on (never changes)
    lastOp,            \* history: the handler that ran last
    scope              \* the bounds this run is explored under (never changes)

vars == <<data, dynamicColumns, rowSelection, showPopover, targetColumnId,
          showSortPopover, sortColumnId, activeId, dragging, listening, engine,
          lastOp, scope>>

----------------------------------------------------------------------------
(* Bounds of the model.                                                    *)

\* The largest batch makeData is asked for: the "100 Data Regenerate" button
\* asks for MaxRows rows and the default (20 in the program) for MaxRows - 1.
\* Add Row is explored up to MaxRows rows.
MaxRows == 2
\* Row identifiers (uuids in the program) are drawn from 1..MaxRowId.
MaxRowId == 2
\* Add Column is explored up to this many dynamic columns.
MaxColumns == 2
\* The sort checks draw row collections of up to this many rows.
MaxSortRows == 4

NULL == "<null>"

----------------------------------------------------------------------------
(* Values of row fields.  A value is a record: t is its JavaScript type,   *)
(* v its content (a number; for a string its rank in the locale's          *)
(* collation order; for a boolean 0 = false, 1 = true).                    *)

Undefined == [t |-> "undefined", v |-> 0]
Num(n) == [t |-> "number", v |-> n]
Str(rank) == [t |-> "string", v |-> rank]
Bool(b) == [t |-> "boolean", v |-> b]

\* a[accessorKey]: a property the record does not have reads as undefined.
FieldValue(row, key) == IF key \in DOMAIN row THEN row[key] ELSE Undefined

\* valA.localeCompare(valB): negative, zero or positive by collation order.
LocaleCompare(a, b) == IF a.v < b.v THEN -1 ELSE IF a.v > b.v THEN 1 ELSE 0

----------------------------------------------------------------------------
(* Sequence helpers.                                                       *)

Range(s) == {s[i] : i \in DOMAIN s}

\* Array.prototype.filter with the predicate "is a member of keep".
RECURSIVE FilterSeq(_, _)
FilterSeq(s, keep) ==
    IF s = <<>> THEN <<>>
    ELSE IF Head(s) \in keep THEN <<Head(s)>> \o FilterSeq(Tail(s), keep)
    ELSE FilterSeq(Tail(s), keep)

RemoveAt(s, i) == SubSeq(s, 1, i - 1) \o SubSeq(s, i + 1, Len(s))
InsertAt(s, i, e) == SubSeq(s, 1, i - 1) \o <<e>> \o SubSeq(s, i, Len(s))
Reverse(s) == [i \in 1..Len(s) |-> s[Len(s) + 1 - i]]

\* A findIndex whose "not found" is taken for a position: -1 counts from
\* the end of the array, so it names the last element.
FindIndexOrLast(s, hits) ==
    IF \E i \in DOMAIN s : s[i] \in hits
    THEN CHOOSE i \in DOMAIN s : s[i] \in hits /\ \A j \in 1..(i - 1) : s[j] \notin hits
    ELSE Len(s)

\* Array.prototype.findIndex, 1-based; 0 stands for -1 (not found).
FindIndex(s, hits) ==
    IF \E i \in DOMAIN s : s[i] \in hits
    THEN CHOOSE i \in DOMAIN s : s[i] \in hits /\ \A j \in 1..(i - 1) : s[j] \notin hits
    ELSE 0

\* A reordering that exchanges the two positions instead of moving one
\* element: what arrayMove must not be confused with.
ArrayMoveSwap(array, from, to) ==
    [i \in DOMAIN array |-> IF i = from THEN array[to]
                            ELSE IF i = to THEN array[from] ELSE array[i]]
\* arrayMove of @dnd-kit/sortable, 1-based: splice the element out of
\* position from and splice it back in at position to.
ArrayMove(array, from, to) == InsertAt(RemoveAt(array, from), to, array[from])

----------------------------------------------------------------------------
(* Identifiers.                                                            *)

RowIdUniverse == 1..(MaxRowId + 2)


\* `row-${row.original.userId}` and `col-${column.id}`.
RowDragId(userId) == "row-" \o ToString(userId)
ColDragId(colId) == "col-" \o colId

UserIds(rows) == {rows[i].userId : i \in DOMAIN rows}
RowDragIds(rows) == {RowDragId(rows[i].userId) : i \in DOMAIN rows}
ColDragIds(cols) == {ColDragId(cols[i].id) : i \in DOMAIN cols}

\* `${id}`.startsWith("row-") / startsWith("col-"), decided over the
\* identifiers the component ever builds.
DynamicColKey(n) == "dynamic-col-" \o ToString(n)
BaseColumnIds == {"age"}
ColumnIdUniverse == BaseColumnIds \cup {DynamicColKey(n) : n \in 1..(MaxColumns + 1)}
StartsWithRow(id) == id \in {RowDragId(u) : u \in RowIdUniverse}
StartsWithCol(id) == id \in {ColDragId(c) : c \in ColumnIdUniverse}

\* columnId.replace("col-", ""): the first "col-" is the prefix.
StripColPrefix(dragId) ==
    IF StartsWithCol(dragId)
    THEN CHOOSE c \in ColumnIdUniverse : ColDragId(c) = dragId
    ELSE dragId

----------------------------------------------------------------------------
(* Row generation (fixtures/makeData).                                     *)

\* One generated person.  The field values are fixed by the identifier:
\* a record is never edited after it is generated.
NewPerson(userId) ==
    [userId    |-> userId,
     firstName |-> Str(1 + ((userId * 2) % 3)),
     age       |-> Num(IF userId % 3 = 1 THEN 30 ELSE IF userId % 3 = 2 THEN 25 ELSE 41)]

\* The count smallest identifiers not in use: a fresh uuid differs from
\* every identifier the component still holds.
RECURSIVE FreshIds(_, _)
FreshIds(count, used) ==
    IF count = 0 THEN <<>>
    ELSE LET id == CHOOSE i \in (1..scope.ids) \ used :
                       \A j \in (1..scope.ids) \ used : i <= j
         IN <<id>> \o FreshIds(count - 1, used \cup {id})

CanMakeData(count, used) == Cardinality((1..scope.ids) \ used) >= count

MakeData(count, used) ==
    LET ids == FreshIds(count, used) IN [i \in 1..count |-> NewPerson(ids[i])]

----------------------------------------------------------------------------
(* handleSort's comparator and Array.prototype.sort.                       *)

IsNullish(val) == val.t = "undefined" \/ val.t = "null"

\* A comparator that negates the whole ascending answer for "desc", and
\* so puts null/undefined values first when descending.
CompareNullsByDirection(a, b, accessorKey, direction) ==
    LET valA == FieldValue(a, accessorKey)
        valB == FieldValue(b, accessorKey)
        asc  == IF IsNullish(valA) THEN (IF IsNullish(valB) THEN 0 ELSE 1)
                ELSE IF IsNullish(valB) THEN -1
                ELSE IF valA.v < valB.v THEN -1 ELSE IF valA.v > valB.v THEN 1 ELSE 0
    IN  IF direction = "asc" THEN asc ELSE 0 - asc
\* A comparator that answers the ascending order in both directions.
CompareIgnoringDirection(a, b, accessorKey, direction) ==
    LET valA == FieldValue(a, accessorKey)
        valB == FieldValue(b, accessorKey)
    IN  IF IsNullish(valA) THEN 1
        ELSE IF IsNullish(valB) THEN -1
        ELSE valA.v - valB.v
\* The comparator handleSort hands to sort: (a, b) => ... for one
\* accessorKey and one direction.
Compare(a, b, accessorKey, direction) ==
    LET valA == FieldValue(a, accessorKey)
        valB == FieldValue(b, accessorKey)
    IN  IF IsNullish(valA) THEN 1
        ELSE IF IsNullish(valB) THEN -1
        ELSE IF valA.t = "string" /\ valB.t = "string"
             THEN IF direction = "asc" THEN LocaleCompare(valA, valB)
                  ELSE LocaleCompare(valB, valA)
        ELSE IF valA.t = "number" /\ valB.t = "number"
             THEN IF direction = "asc" THEN valA.v - valB.v ELSE valB.v - valA.v
        ELSE IF valA.t = "boolean" /\ valB.t = "boolean"
             THEN IF direction = "asc"
                  THEN (IF valA.v = valB.v THEN 0 ELSE IF valA.v = 1 THEN 1 ELSE -1)
                  ELSE (IF valA.v = valB.v THEN 0 ELSE IF valA.v = 1 THEN -1 ELSE 1)
        ELSE 0

(* Array.prototype.sort.  The comparator answers 1 for two null/undefined  *)
(* values whichever comes first, so it is not a consistent comparison      *)
(* function and ECMA-262 leaves the order to the engine.  Two engines are  *)
(* modelled, both as they sort arrays of the lengths explored here:        *)
(*   "v8"           TimSort: the leading run is found (and reversed when   *)
(*                  strictly descending), the rest is inserted by binary   *)
(*                  search calling comparefn(pivot, element);              *)
(*   "spidermonkey" insertion sort scanning leftwards while                *)
(*                  comparefn(element, item) > 0.                          *)
Engines == {"v8", "spidermonkey"}
Directions == {"asc", "desc"}

\* v8: the length of the run that starts the array (positions 1..result).
RECURSIVE RunEnd(_, _, _, _, _)
RunEnd(work, idx, isDescending, key, dir) ==
    IF idx > Len(work) THEN idx - 1
    ELSE LET order == Compare(work[idx], work[idx - 1], key, dir)
         IN IF isDescending
            THEN (IF order >= 0 THEN idx - 1
                  ELSE RunEnd(work, idx + 1, isDescending, key, dir))
            ELSE (IF order < 0 THEN idx - 1
                  ELSE RunEnd(work, idx + 1, isDescending, key, dir))

\* v8: binary search of the insertion point of pivot in work[left..right-1].
RECURSIVE BinarySearch(_, _, _, _, _, _)
BinarySearch(work, pivot, left, right, key, dir) ==
    IF left >= right THEN left
    ELSE LET mid == left + ((right - left) \div 2)
         IN IF Compare(pivot, work[mid], key, dir) < 0
            THEN BinarySearch(work, pivot, left, mid, key, dir)
            ELSE BinarySearch(work, pivot, mid + 1, right, key, dir)

\* v8: insert work[start], work[start+1], ... into the sorted prefix.
RECURSIVE BinaryInsertionSort(_, _, _, _)
BinaryInsertionSort(work, start, key, dir) ==
    IF start > Len(work) THEN work
    ELSE LET pivot == work[start]
             pos   == BinarySearch(work, pivot, 1, start, key, dir)
         IN BinaryInsertionSort(InsertAt(RemoveAt(work, start), pos, pivot),
                                start + 1, key, dir)

V8Sort(array, key, dir) ==
    IF Len(array) < 2 THEN array
    ELSE LET isDescending == Compare(array[2], array[1], key, dir) < 0
             runLength    == RunEnd(array, 3, isDescending, key, dir)
             work         == IF isDescending
                             THEN Reverse(SubSeq(array, 1, runLength))
                                  \o SubSeq(array, runLength + 1, Len(array))
                             ELSE array
         IN BinaryInsertionSort(work, runLength + 1, key, dir)

\* spidermonkey: the position item takes in the sorted prefix work[1..j].
RECURSIVE LinearScan(_, _, _, _, _)
LinearScan(work, item, j, key, dir) ==
    IF j < 1 THEN 1
    ELSE IF Compare(work[j], item, key, dir) <= 0 THEN j + 1
    ELSE LinearScan(work, item, j - 1, key, dir)

RECURSIVE InsertionSort(_, _, _, _)
InsertionSort(work, i, key, dir) ==
    IF i > Len(work) THEN work
    ELSE LET item == work[i]
             pos  == LinearScan(work, item, i - 1, key, dir)
         IN InsertionSort(InsertAt(RemoveAt(work, i), pos, item), i + 1, key, dir)

\* [...data].sort(comparator) as the given engine runs it.
JsSort(impl, array, key, dir) ==
    IF impl = "v8" THEN V8Sort(array, key, dir)
    ELSE InsertionSort(array, 2, key, dir)

----------------------------------------------------------------------------
(* Row selection (@tanstack/react-table, getRowId: row => row.userId).     *)

\* table.getIsAllRowsSelected()
GetIsAllRowsSelected(selection, rows) ==
    /\ Len(rows) > 0
    /\ selection # {}
    /\ \A i \in DOMAIN rows : rows[i].userId \in selection

\* table.getIsSomeRowsSelected(): counts the keys of the mapping.
GetIsSomeRowsSelected(selection, rows) ==
    Cardinality(selection) > 0 /\ Cardinality(selection) < Len(rows)

\* table.toggleAllRowsSelected(value): sets or deletes the key of every row
\* of the row model.
ToggleAllRowsSelected(selection, rows, value) ==
    IF value THEN selection \cup UserIds(rows) ELSE selection \ UserIds(rows)

\* row.toggleSelected(): deselecting deletes the key.
ToggleSelected(selection, userId) ==
    IF userId \in selection THEN selection \ {userId} ELSE selection \cup {userId}

\* IndeterminateCheckbox: the input shows checked, and the effect sets
\* ref.current.indeterminate = !rest.checked && indeterminate.
IndeterminateCheckbox(checked, indeterminate) ==
    [checked |-> checked, indeterminate |-> ~checked /\ indeterminate]

----------------------------------------------------------------------------
(* The component.                                                          *)

Column(colId) == [id |-> colId, accessorKey |-> colId]

\* The initial dynamic columns: of the six columns of the program, one
\* string column and one number column are kept.
InitialColumns == <<Column("age")>>

\* The selection-handle column, with the header checkbox and the row
\* checkboxes.
DragHandleColumn == [id |-> "drag-handle"]

\* A column list with the handle column behind the dynamic columns.
ColumnsHandleLast == dynamicColumns \o <<DragHandleColumn>>

\* The header checkbox of the handle column.
HeaderCheckbox ==
    IndeterminateCheckbox(GetIsAllRowsSelected(rowSelection, data),
                          GetIsSomeRowsSelected(rowSelection, data))

\* columns: [dragHandleColumn, ...dynamicColumns], the columns the table
\* displays.
Columns == <<DragHandleColumn>> \o dynamicColumns

\* The headers rendered as DraggableTableHeader, which take the click and
\* the drag: every header but the one of the handle column.
HeaderClickIds ==
    {Columns[i].id : i \in DOMAIN Columns} \ {DragHandleColumn.id}
HeaderIdUniverse == ColumnIdUniverse \cup {DragHandleColumn.id}

\* rerender() asks for the default batch, rerender(100) for the large one.
DefaultCount == scope.rows - 1
LargeCount == scope.rows

\* Identifiers the component still holds: a fresh one differs from them all.
ActiveUserIds == {u \in RowIdUniverse : RowDragId(u) \in {activeId, dragging}}
UsedIds == UserIds(data) \cup rowSelection \cup ActiveUserIds

\* renderPopover() / renderSortPopover() return an element, so that
\* popoverRef.current / sortPopoverRef.current is set.
PopoverRendered == showPopover /\ targetColumnId # NULL
SortPopoverRendered == showSortPopover /\ sortColumnId # NULL

\* An effect without the cleanup: a listener once added stays.
EffectNeverDetaches == listening' = (listening \/ showPopover' \/ showSortPopover')

\* The effect on [showPopover, showSortPopover]: the cleanup removes the
\* listener, the body adds it while a level is open.
Effect == listening' = (showPopover' \/ showSortPopover')

InitIn(sc) ==
    /\ scope = sc
    /\ engine \in Engines
    /\ data = MakeData(DefaultCount, {})
    /\ dynamicColumns = InitialColumns
    /\ rowSelection = {}
    /\ showPopover = FALSE
    /\ targetColumnId = NULL
    /\ showSortPopover = FALSE
    /\ sortColumnId = NULL
    /\ activeId = NULL
    /\ dragging = NULL
    /\ listening = FALSE
    /\ lastOp = "init"

\* rerender(count): setData(() => makeData(count)).
Rerender(count, op) ==
    /\ CanMakeData(count, UsedIds)
    /\ data' = MakeData(count, UsedIds)
    /\ lastOp' = op
    /\ UNCHANGED <<dynamicColumns, rowSelection, showPopover, targetColumnId,
                   showSortPopover, sortColumnId, activeId, dragging>>
    /\ Effect

\* addDynamicColumn
AddDynamicColumn ==
    /\ Len(dynamicColumns) < scope.cols
    /\ LET newColumnKey == DynamicColKey(Len(dynamicColumns) + 1)
       IN dynamicColumns' = Append(dynamicColumns, Column(newColumnKey))
    /\ lastOp' = "addDynamicColumn"
    /\ UNCHANGED <<data, rowSelection, showPopover, targetColumnId,
                   showSortPopover, sortColumnId, activeId, dragging>>
    /\ Effect

\* An Add Row that puts the new row first.
AddRowAtTop ==
    /\ Len(data) < scope.rows
    /\ CanMakeData(1, UsedIds)
    /\ data' = MakeData(1, UsedIds) \o data
    /\ lastOp' = "addRow"
    /\ UNCHANGED <<dynamicColumns, rowSelection, showPopover, targetColumnId,
                   showSortPopover, sortColumnId, activeId, dragging>>
    /\ Effect

\* addRow
AddRow ==
    /\ Len(data) < scope.rows
    /\ CanMakeData(1, UsedIds)
    /\ data' = data \o MakeData(1, UsedIds)
    /\ lastOp' = "addRow"
    /\ UNCHANGED <<dynamicColumns, rowSelection, showPopover, targetColumnId,
                   showSortPopover, sortColumnId, activeId, dragging>>
    /\ Effect

\* removeRow: the rows whose userId is a key of the selection are filtered
\* out, then toggleAllRowsSelected(false) runs over the row model.
RemoveRow ==
    /\ LET selectedRowIds == rowSelection
       IN data' = FilterSeq(data, {c \in Range(data) : c.userId \notin selectedRowIds})
    /\ rowSelection' = ToggleAllRowsSelected(rowSelection, data, FALSE)
    /\ lastOp' = "removeRow"
    /\ UNCHANGED <<dynamicColumns, showPopover, targetColumnId,
                   showSortPopover, sortColumnId, activeId, dragging>>
    /\ Effect

\* A row's checkbox: row.getToggleSelectedHandler().
ToggleRow(userId) ==
    /\ userId \in UserIds(data)
    /\ rowSelection' = ToggleSelected(rowSelection, userId)
    /\ lastOp' = "toggleRow"
    /\ UNCHANGED <<data, dynamicColumns, showPopover, targetColumnId,
                   showSortPopover, sortColumnId, activeId, dragging>>
    /\ Effect

\* The header checkbox: table.getToggleAllRowsSelectedHandler(); the value
\* is the box's new checked state, the negation of the checked prop.
ToggleAll ==
    /\ rowSelection' = ToggleAllRowsSelected(rowSelection, data,
                                             ~GetIsAllRowsSelected(rowSelection, data))
    /\ lastOp' = "toggleAll"
    /\ UNCHANGED <<data, dynamicColumns, showPopover, targetColumnId,
                   showSortPopover, sortColumnId, activeId, dragging>>
    /\ Effect

\* A header click that opens level 1 and leaves level 2 as it is.
HandleHeaderClickKeepsSort(colId) ==
    /\ colId \in HeaderClickIds
    /\ targetColumnId' = ColDragId(colId)
    /\ showPopover' = TRUE
    /\ lastOp' = IF showSortPopover THEN "handleHeaderClick:level2"
                 ELSE "handleHeaderClick"
    /\ UNCHANGED <<data, dynamicColumns, rowSelection, showSortPopover,
                   sortColumnId, activeId, dragging>>
    /\ Effect

\* handleHeaderClick(e, `col-${header.column.id}`)
HandleHeaderClick(colId) ==
    /\ colId \in HeaderClickIds
    /\ targetColumnId' = ColDragId(colId)
    /\ showPopover' = TRUE
    /\ showSortPopover' = FALSE
    /\ lastOp' = IF showSortPopover THEN "handleHeaderClick:level2"
                 ELSE "handleHeaderClick"
    /\ UNCHANGED <<data, dynamicColumns, rowSelection, sortColumnId, activeId,
                   dragging>>
    /\ Effect

\* A hover handler that opens level 2 without naming its column.
HandleSortButtonHoverKeepsColumn ==
    /\ PopoverRendered
    /\ showSortPopover' = TRUE
    /\ lastOp' = "handleSortButtonHover"
    /\ UNCHANGED <<data, dynamicColumns, rowSelection, showPopover,
                   targetColumnId, sortColumnId, activeId, dragging>>
    /\ Effect

\* handleSortButtonHover: the sort button exists while level 1 is rendered.
HandleSortButtonHover ==
    /\ PopoverRendered
    /\ sortColumnId' = targetColumnId
    /\ showSortPopover' = TRUE
    /\ lastOp' = "handleSortButtonHover"
    /\ UNCHANGED <<data, dynamicColumns, rowSelection, showPopover,
                   targetColumnId, activeId, dragging>>
    /\ Effect

\* A delete button that removes the column and leaves the popover as it is.
DeleteColumnLeavesPopover ==
    /\ PopoverRendered
    /\ dynamicColumns' =
           FilterSeq(dynamicColumns,
                     {col \in Range(dynamicColumns) : ColDragId(col.id) # targetColumnId})
    /\ lastOp' = IF showSortPopover THEN "deleteColumn:level2" ELSE "deleteColumn"
    /\ UNCHANGED <<data, rowSelection, showPopover, showSortPopover,
                   targetColumnId, sortColumnId, activeId, dragging>>
    /\ Effect

\* The delete button of level 1.
DeleteColumn ==
    /\ PopoverRendered
    /\ dynamicColumns' =
           FilterSeq(dynamicColumns,
                     {col \in Range(dynamicColumns) : ColDragId(col.id) # targetColumnId})
    /\ showPopover' = FALSE
    /\ showSortPopover' = FALSE
    /\ lastOp' = IF showSortPopover THEN "deleteColumn:level2" ELSE "deleteColumn"
    /\ UNCHANGED <<data, rowSelection, targetColumnId, sortColumnId, activeId,
                   dragging>>
    /\ Effect

\* dynamicColumns.find(col => col.id === actualColumnId && "accessorKey" in col)
FindSortColumn(columnId) ==
    FindIndex(dynamicColumns,
              {col \in Range(dynamicColumns) :
                  col.id = StripColPrefix(columnId) /\ "accessorKey" \in DOMAIN col})

\* A handleSort without the guard on the column: a request that resolves
\* to no column is sorted by the identifier it names.
HandleSortUnguarded(columnId, direction) ==
    /\ data' = JsSort(engine, data, StripColPrefix(columnId), direction)
    /\ showSortPopover' = FALSE
    /\ lastOp' = IF FindSortColumn(columnId) = 0 THEN "handleSort:invalid"
                 ELSE "handleSort:" \o direction

\* handleSort(columnId, direction): what it does to the state.
HandleSort(columnId, direction) ==
    LET idx == FindSortColumn(columnId)
    IN IF idx = 0
       THEN /\ lastOp' = "handleSort:invalid"
            /\ UNCHANGED <<data, showSortPopover>>
       ELSE /\ data' = JsSort(engine, data, dynamicColumns[idx].accessorKey, direction)
            /\ showSortPopover' = FALSE
            /\ lastOp' = "handleSort:" \o direction

\* A level 2 button that forgets level 1.
SortClickLeavesPopover(direction) ==
    /\ SortPopoverRendered
    /\ HandleSort(sortColumnId, direction)
    /\ UNCHANGED <<dynamicColumns, rowSelection, showPopover, targetColumnId,
                   sortColumnId, activeId, dragging>>
    /\ Effect

\* A level 2 button that also resets the row selection.
SortClickResetsSelection(direction) ==
    /\ SortPopoverRendered
    /\ HandleSort(sortColumnId, direction)
    /\ showPopover' = FALSE
    /\ rowSelection' = {}
    /\ UNCHANGED <<dynamicColumns, targetColumnId, sortColumnId, activeId,
                   dragging>>
    /\ Effect

\* The ascending / descending button of level 2:
\* handleSort(sortColumnId, direction); setShowPopover(false).
SortClick(direction) ==
    /\ SortPopoverRendered
    /\ HandleSort(sortColumnId, direction)
    /\ showPopover' = FALSE
    /\ UNCHANGED <<dynamicColumns, rowSelection, targetColumnId, sortColumnId,
                   activeId, dragging>>
    /\ Effect

\* handleSort called on its own with any column identifier of the col-<id>
\* form, whether the column exists or not.
SortRequestIds == {ColDragId(c) : c \in ColumnIdUniverse}

SortRequest(columnId, direction) ==
    /\ columnId \in SortRequestIds
    /\ HandleSort(columnId, direction)
    /\ UNCHANGED <<dynamicColumns, rowSelection, showPopover, targetColumnId,
                   sortColumnId, activeId, dragging>>
    /\ Effect

\* handleClickOutside: a mousedown on the document while the listener is
\* attached.  where is the part of the page that holds the target.
ClickRegions ==
    {"outside"} \cup (IF PopoverRendered THEN {"popover"} ELSE {})
                \cup (IF SortPopoverRendered THEN {"sortPopover"} ELSE {})

\* A listener that, with level 2 open, closes level 2 alone.
HandleClickOutsideLeavesFirst(where) ==
    /\ listening
    /\ where \in ClickRegions
    /\ LET inFirst  == PopoverRendered /\ where = "popover"
           inSecond == SortPopoverRendered /\ where = "sortPopover"
       IN IF showSortPopover
          THEN IF (SortPopoverRendered /\ ~inSecond) /\ ~inFirst
               THEN showSortPopover' = FALSE /\ UNCHANGED showPopover
               ELSE UNCHANGED <<showPopover, showSortPopover>>
          ELSE IF showPopover /\ PopoverRendered /\ ~inFirst
               THEN showPopover' = FALSE /\ UNCHANGED showSortPopover
               ELSE UNCHANGED <<showPopover, showSortPopover>>
    /\ lastOp' = "handleClickOutside:" \o where
                     \o (IF showSortPopover THEN ":level2" ELSE "")
    /\ UNCHANGED <<data, dynamicColumns, rowSelection, targetColumnId,
                   sortColumnId, activeId, dragging>>
    /\ Effect

\* A listener that, with level 2 open, takes every target outside level 2
\* for an outside click, level 1 included.
HandleClickOutsideOfSecond(where) ==
    /\ listening
    /\ where \in ClickRegions
    /\ LET inFirst  == PopoverRendered /\ where = "popover"
           inSecond == SortPopoverRendered /\ where = "sortPopover"
       IN IF showSortPopover
          THEN IF SortPopoverRendered /\ ~inSecond
               THEN showSortPopover' = FALSE /\ showPopover' = FALSE
               ELSE UNCHANGED <<showPopover, showSortPopover>>
          ELSE IF showPopover /\ PopoverRendered /\ ~inFirst
               THEN showPopover' = FALSE /\ UNCHANGED showSortPopover
               ELSE UNCHANGED <<showPopover, showSortPopover>>
    /\ lastOp' = "handleClickOutside:" \o where
                     \o (IF showSortPopover THEN ":level2" ELSE "")
    /\ UNCHANGED <<data, dynamicColumns, rowSelection, targetColumnId,
                   sortColumnId, activeId, dragging>>
    /\ Effect

HandleClickOutside(where) ==
    /\ listening
    /\ where \in ClickRegions
    /\ LET inFirst  == PopoverRendered /\ where = "popover"
           inSecond == SortPopoverRendered /\ where = "sortPopover"
           isClickedOutsideFirstPopover  == PopoverRendered /\ ~inFirst
           isClickedOutsideSecondPopover == SortPopoverRendered /\ ~inSecond
       IN IF ~showPopover /\ ~showSortPopover
          THEN UNCHANGED <<showPopover, showSortPopover>>
          ELSE IF showSortPopover
          THEN IF isClickedOutsideSecondPopover /\ ~(inFirst /\ ~inSecond)
               THEN showSortPopover' = FALSE /\ showPopover' = FALSE
               ELSE UNCHANGED <<showPopover, showSortPopover>>
          ELSE IF isClickedOutsideFirstPopover
               THEN showPopover' = FALSE /\ UNCHANGED showSortPopover
               ELSE UNCHANGED <<showPopover, showSortPopover>>
    /\ lastOp' = "handleClickOutside:" \o where
                     \o (IF showSortPopover THEN ":level2" ELSE "")
    /\ UNCHANGED <<data, dynamicColumns, rowSelection, targetColumnId,
                   sortColumnId, activeId, dragging>>
    /\ Effect

\* The sortable items are the rows and the dynamic column headers.
SortableIds == RowDragIds(data) \cup ColDragIds(dynamicColumns)

\* A classification that takes the axes the other way round.
GetModifiersForDragIdSwapped(id) ==
    IF StartsWithRow(id) THEN <<"restrictToHorizontalAxis">>
    ELSE IF StartsWithCol(id) THEN <<"restrictToVerticalAxis">>
    ELSE <<>>

\* getModifiersForDragId(id)
GetModifiersForDragId(id) ==
    IF StartsWithRow(id) THEN <<"restrictToVerticalAxis">>
    ELSE IF StartsWithCol(id) THEN <<"restrictToHorizontalAxis">>
    ELSE <<>>

\* The modifiers prop of the DndContext:
\* activeId ? getModifiersForDragId(`${activeId}`) : [].
Modifiers == IF activeId # NULL THEN GetModifiersForDragId(activeId) ELSE <<>>

\* onDragStart: setActiveId(e.active.id).  The DndContext runs one drag at
\* a time.
DragStart(id) ==
    /\ dragging = NULL
    /\ id \in SortableIds
    /\ activeId' = id
    /\ dragging' = id
    /\ lastOp' = "onDragStart"
    /\ UNCHANGED <<data, dynamicColumns, rowSelection, showPopover, targetColumnId,
                   showSortPopover, sortColumnId>>
    /\ Effect

\* A drag end that takes a missing drop target for the head of the list:
\* the dragged row goes to the top.
DragEndDropsAtTop(over) ==
    /\ dragging # NULL
    /\ over \in SortableIds \cup {NULL}
    /\ activeId' = NULL
    /\ dragging' = NULL
    /\ LET target == IF over = NULL /\ data # <<>>
                     THEN RowDragId(data[1].userId) ELSE over
           rowFrom == FindIndex(data, {r \in Range(data) : RowDragId(r.userId) = dragging})
           rowTo   == FindIndex(data, {r \in Range(data) : RowDragId(r.userId) = target})
           colFrom == FindIndex(dynamicColumns,
                          {c \in Range(dynamicColumns) : ColDragId(c.id) = dragging})
           colTo   == FindIndex(dynamicColumns,
                          {c \in Range(dynamicColumns) : ColDragId(c.id) = target})
       IN /\ data' = IF rowFrom # 0 /\ rowTo # 0
                     THEN ArrayMove(data, rowFrom, rowTo) ELSE data
          /\ dynamicColumns' = IF colFrom # 0 /\ colTo # 0
                               THEN ArrayMove(dynamicColumns, colFrom, colTo)
                               ELSE dynamicColumns
          /\ lastOp' = IF over = NULL \/ dragging = over THEN "onDragEnd:return"
                       ELSE IF rowFrom # 0 /\ rowTo # 0 THEN "onDragEnd:rows"
                       ELSE IF colFrom # 0 /\ colTo # 0 THEN "onDragEnd:columns"
                       ELSE "onDragEnd:unresolved"
    /\ UNCHANGED <<rowSelection, showPopover, targetColumnId, showSortPopover,
                   sortColumnId>>
    /\ Effect

\* onDragEnd: setActiveId(null); handleDragEnd(e) with e.active.id the
\* dragged identifier and e.over the droppable under it, if any.
DragEnd(over) ==
    /\ dragging # NULL
    /\ over \in SortableIds \cup {NULL}
    /\ activeId' = NULL
    /\ dragging' = NULL
    /\ IF over = NULL \/ dragging = over
       THEN /\ lastOp' = "onDragEnd:return"
            /\ UNCHANGED <<data, dynamicColumns>>
       ELSE IF StartsWithRow(dragging)
       THEN LET oldIdx == FindIndex(data, {r \in Range(data) : RowDragId(r.userId) = dragging})
                newIdx == FindIndex(data, {r \in Range(data) : RowDragId(r.userId) = over})
            IN IF oldIdx # 0 /\ newIdx # 0
               THEN /\ data' = ArrayMove(data, oldIdx, newIdx)
                    /\ lastOp' = "onDragEnd:rows"
                    /\ UNCHANGED dynamicColumns
               ELSE /\ lastOp' = IF oldIdx = 0 THEN "onDragEnd:stale"
                                 ELSE "onDragEnd:unresolved"
                    /\ UNCHANGED <<data, dynamicColumns>>
       ELSE IF StartsWithCol(dragging)
       THEN LET oldIdx == FindIndex(dynamicColumns,
                              {c \in Range(dynamicColumns) : ColDragId(c.id) = dragging})
                newIdx == FindIndex(dynamicColumns,
                              {c \in Range(dynamicColumns) : ColDragId(c.id) = over})
            IN IF oldIdx # 0 /\ newIdx # 0
               THEN /\ dynamicColumns' = ArrayMove(dynamicColumns, oldIdx, newIdx)
                    /\ lastOp' = "onDragEnd:columns"
                    /\ UNCHANGED data
               ELSE /\ lastOp' = IF oldIdx = 0 THEN "onDragEnd:stale"
                                 ELSE "onDragEnd:unresolved"
                    /\ UNCHANGED <<data, dynamicColumns>>
       ELSE /\ lastOp' = "onDragEnd:unresolved"
            /\ UNCHANGED <<data, dynamicColumns>>
    /\ UNCHANGED <<rowSelection, showPopover, targetColumnId, showSortPopover,
                   sortColumnId>>
    /\ Effect

\* The drag is cancelled (Escape, or the sensor gives up): the DndContext
\* calls its onDragCancel prop, which the component does not pass, and no
\* handler of the component runs.
DragCancel ==
    /\ dragging # NULL
    /\ dragging' = NULL
    /\ lastOp' = "onDragCancel"
    /\ UNCHANGED <<data, dynamicColumns, rowSelection, showPopover, targetColumnId,
                   showSortPopover, sortColumnId, activeId>>
    /\ Effect

\* The toolbar's row buttons and the checkboxes.
RowStep ==
    \/ Rerender(DefaultCount, "rerender")
    \/ Rerender(LargeCount, "rerender100")
    \/ AddRow
    \/ RemoveRow
    \/ \E userId \in RowIdUniverse : ToggleRow(userId)
    \/ ToggleAll

\* Add Column, the column headers and the two popover levels.
ColStep ==
    \/ AddDynamicColumn
    \/ \E colId \in HeaderIdUniverse : HandleHeaderClick(colId)
    \/ HandleSortButtonHover
    \/ DeleteColumn
    \/ \E direction \in Directions : SortClick(direction)
    \/ \E where \in {"outside", "popover", "sortPopover"} : HandleClickOutside(where)

\* The drag-and-drop context.
DragStep ==
    \/ \E id \in SortableIds : DragStart(id)
    \/ \E over \in SortableIds \cup {NULL} : DragEnd(over)
    \/ DragCancel

(* Spec: the whole component, every handler, over few rows and columns.    *)
FullScope == [rows |-> MaxRows, ids |-> MaxRowId, cols |-> MaxColumns]
Init == InitIn(FullScope)
Next == (RowStep \/ ColStep \/ DragStep) /\ UNCHANGED <<scope, engine>>
Spec == Init /\ [][Next]_vars

(* RowSpec: the row side of the component (toolbar, checkboxes, drags)     *)
(* over more rows; the columns stay as they start.                         *)
RowScope == [rows |-> MaxRows + 1, ids |-> MaxRowId + 2, cols |-> MaxColumns]
RowInit == InitIn(RowScope)
RowNext == (RowStep \/ DragStep) /\ UNCHANGED <<scope, engine>>
RowSpec == RowInit /\ [][RowNext]_vars

(* ColSpec: the column side of the component (Add Column, headers,         *)
(* popover, sort, drags) over more columns; rows are neither added nor     *)
(* removed.                                                                *)
ColScope == [rows |-> MaxRows, ids |-> MaxRowId, cols |-> MaxColumns + 1]
ColInit == InitIn(ColScope)
ColNext == (ColStep \/ DragStep) /\ UNCHANGED <<scope, engine>>
ColSpec == ColInit /\ [][ColNext]_vars

(* SortSpec: handleSort over every row collection of up to MaxSortRows     *)
(* rows whose sorted column holds values of one type, or nothing: the      *)
(* column is sorted through the popover, again and again.                  *)
SortValues ==
    {{Undefined} \cup {Num(n) : n \in {25, 30, 41}},
     {Undefined} \cup {Str(rank) : rank \in 1..2},
     {Undefined} \cup {Bool(b) : b \in 0..1}}

SortInputs ==
    UNION {UNION {{[i \in 1..n |-> [userId |-> i, age |-> vals[i]]] :
                      vals \in [1..n -> domain]} : domain \in SortValues} :
           n \in 0..MaxSortRows}

SortInit ==
    /\ scope = [rows |-> MaxSortRows, ids |-> MaxSortRows, cols |-> 1]
    /\ engine \in Engines
    /\ data \in SortInputs
    /\ dynamicColumns = InitialColumns
    /\ rowSelection = {}
    /\ showPopover = FALSE
    /\ targetColumnId = NULL
    /\ showSortPopover = FALSE
    /\ sortColumnId = NULL
    /\ activeId = NULL
    /\ dragging = NULL
    /\ listening = FALSE
    /\ lastOp = "init"

SortNext ==
    /\ \/ \E colId \in HeaderIdUniverse : HandleHeaderClick(colId)
       \/ HandleSortButtonHover
       \/ \E direction \in Directions : SortClick(direction)
    /\ UNCHANGED <<scope, engine>>

SortSpec == SortInit /\ [][SortNext]_vars

(* DragSpec: the drag-and-drop context over MaxRows + 1 rows and up to     *)
(* MaxColumns + 1 columns: columns are added, rows and columns dragged.    *)
DragScope == [rows |-> MaxRows + 2, ids |-> MaxRows + 2, cols |-> MaxColumns + 1]
DragInit == InitIn(DragScope)
DragNext ==
    /\ \/ AddDynamicColumn
       \/ DragStep
    /\ UNCHANGED <<scope, engine>>
DragSpec == DragInit /\ [][DragNext]_vars

(* PopoverSpec: the column headers and the two popover levels, with Add    *)
(* Column and Add Row; nothing is dragged.                                 *)
PopoverInit == InitIn(ColScope)
PopoverNext == (AddRow \/ ColStep) /\ UNCHANGED <<scope, engine>>
PopoverSpec == PopoverInit /\ [][PopoverNext]_vars

(* DropSpec: drags over the rows and columns of the start, with a row      *)
(* added or selected and the popover opened in between.                    *)
DropInit == InitIn(FullScope)
DropNext ==
    /\ \/ AddRow
       \/ \E userId \in RowIdUniverse : ToggleRow(userId)
       \/ \E colId \in HeaderIdUniverse : HandleHeaderClick(colId)
       \/ HandleSortButtonHover
       \/ DragStep
    /\ UNCHANGED <<scope, engine>>
DropSpec == DropInit /\ [][DropNext]_vars

(* SortRequestSpec: handleSort as a function of its columnId argument,    *)
(* over the rows, selections and columns the toolbar and the checkboxes    *)
(* produce.                                                                *)
SortRequestInit == InitIn(FullScope)
SortRequestNext ==
    /\ \/ AddRow
       \/ \E userId \in RowIdUniverse : ToggleRow(userId)
       \/ AddDynamicColumn
       \/ \E columnId \in SortRequestIds, direction \in Directions :
              SortRequest(columnId, direction)
    /\ UNCHANGED <<scope, engine>>
SortRequestSpec == SortRequestInit /\ [][SortRequestNext]_vars

(* OrderSpec: the checkboxes next to what reorders: row drags, column     *)
(* drags and the sort of level 2, over the rows of the start and the       *)
(* columns the toolbar adds.                                               *)
OrderScope == [rows |-> MaxRows + 1, ids |-> MaxRows + 1, cols |-> MaxColumns]
OrderInit == InitIn(OrderScope)
OrderNext ==
    /\ \/ AddDynamicColumn
       \/ \E userId \in RowIdUniverse : ToggleRow(userId)
       \/ ToggleAll
       \/ \E colId \in HeaderIdUniverse : HandleHeaderClick(colId)
       \/ HandleSortButtonHover
       \/ \E direction \in Directions : SortClick(direction)
       \/ \E id \in SortableIds : DragStart(id)
       \/ \E over \in SortableIds \cup {NULL} : DragEnd(over)
    /\ UNCHANGED <<scope, engine>>
OrderSpec == OrderInit /\ [][OrderNext]_vars

(* AddSpec: Add Row and Add Column among selected rows, open popover      *)
(* levels and deleted columns.                                             *)
AddInit == InitIn(FullScope)
AddNext ==
    /\ \/ AddRow
       \/ AddDynamicColumn
       \/ \E userId \in RowIdUniverse : ToggleRow(userId)
       \/ \E colId \in HeaderIdUniverse : HandleHeaderClick(colId)
       \/ HandleSortButtonHover
       \/ DeleteColumn
    /\ UNCHANGED <<scope, engine>>
AddSpec == AddInit /\ [][AddNext]_vars

(* HeaderSpec: the column headers: Add Column, the header click, the two  *)
(* popover levels with the delete and the sort, and the drags, over one   *)
(* row.                                                                    *)
HeaderScope == [rows |-> 2, ids |-> 2, cols |-> MaxColumns + 1]
HeaderInit == InitIn(HeaderScope)
HeaderNext == (ColStep \/ DragStep) /\ UNCHANGED <<scope, engine>>
HeaderSpec == HeaderInit /\ [][HeaderNext]_vars

----------------------------------------------------------------------------
(* Claims.                                                                 *)

ColumnIds == [i \in DOMAIN dynamicColumns |-> dynamicColumns[i].id]
RowIds == [i \in DOMAIN data |-> data[i].userId]

\* after is before with the element at position from moved to position to:
\* the same elements, the moved one at to, the others in their old order.
IsMoveOf(before, after, from, to) ==
    /\ Len(after) = Len(before)
    /\ \A e \in Range(before) \cup Range(after) :
           Cardinality({i \in DOMAIN before : before[i] = e})
               = Cardinality({i \in DOMAIN after : after[i] = e})
    /\ after[to] = before[from]
    /\ RemoveAt(after, to) = RemoveAt(before, from)

\* C1: a drag end whose source and target resolve to positions from and to
\* of the row sequence, or of the dynamic-column sequence, leaves that
\* sequence with the same elements, the dragged one at position to and the
\* others in their previous relative order.
C1_DragEndReorders ==
    [][\A over \in SortableIds :
          LET rowFrom == FindIndex(data, {r \in Range(data) : RowDragId(r.userId) = dragging})
              rowTo   == FindIndex(data, {r \in Range(data) : RowDragId(r.userId) = over})
              colFrom == FindIndex(dynamicColumns,
                             {c \in Range(dynamicColumns) : ColDragId(c.id) = dragging})
              colTo   == FindIndex(dynamicColumns,
                             {c \in Range(dynamicColumns) : ColDragId(c.id) = over})
          IN  /\ (DragEnd(over) /\ rowFrom # 0 /\ rowTo # 0)
                    => IsMoveOf(data, data', rowFrom, rowTo)
              /\ (DragEnd(over) /\ colFrom # 0 /\ colTo # 0)
                    => IsMoveOf(dynamicColumns, dynamicColumns', colFrom, colTo)
      ]_vars

\* C1: the scenario of the claim, [A, B, C] with A dragged onto C: the
\* initial column, followed by two added ones, has been dragged to the end.
C1_Witness ==
    /\ lastOp = "onDragEnd:columns"
    /\ Len(dynamicColumns) = 3
    /\ ColumnIds = <<DynamicColKey(2), DynamicColKey(3), "age">>

\* C2: no two dynamic columns share an identifier.
C2_UniqueColumnIds ==
    \A i, j \in DOMAIN dynamicColumns :
        i # j => dynamicColumns[i].id # dynamicColumns[j].id

\* C3: every key of the selection mapping is the identifier of a row of
\* the current row collection.
C3_SelectionWithinRows == rowSelection \subseteq UserIds(data)

\* The rows after a regenerate with count n: n rows, with n identifiers
\* none of which the old collection had, and an empty selection mapping.
RegeneratedTo(n) ==
    /\ Len(data') = n
    /\ Cardinality(UserIds(data')) = n
    /\ UserIds(data') \cap UserIds(data) = {}
    /\ rowSelection' = {}

\* C4: regenerate with count n replaces the row collection with exactly n
\* freshly generated rows and leaves the selection mapping empty.
C4_RegenerateClearsSelection ==
    [][/\ Rerender(DefaultCount, "rerender") => RegeneratedTo(DefaultCount)
       /\ Rerender(LargeCount, "rerender100") => RegeneratedTo(LargeCount)]_vars

\* C5: after the regenerate action no popover level is open.
C5_RegenerateClosesPopover ==
    [][(Rerender(DefaultCount, "rerender") \/ Rerender(LargeCount, "rerender100"))
          => (~showPopover' /\ ~showSortPopover')]_vars

\* sub holds elements of full, in the order they have in full.
IsSubsequenceInOrder(sub, full) ==
    \A i, j \in DOMAIN sub :
        i < j => \E k, l \in DOMAIN full : k < l /\ full[k] = sub[i] /\ full[l] = sub[j]

\* C6: remove row deletes exactly the selected rows, keeps the others in
\* their previous relative order and leaves the selection empty, with
\* isAllSelected and isSomeSelected both false.
C6_RemoveRowClearsSelection ==
    [][RemoveRow =>
          /\ Range(data') = {r \in Range(data) : r.userId \notin rowSelection}
          /\ Len(data') = Cardinality(Range(data'))
          /\ IsSubsequenceInOrder(data', data)
          /\ rowSelection' = {}
          /\ ~GetIsAllRowsSelected(rowSelection', data')
          /\ ~GetIsSomeRowsSelected(rowSelection', data')]_vars

\* The accessor key handleSort resolves a popover column identifier to.
SortKeyOf(columnId) == dynamicColumns[FindSortColumn(columnId)].accessorKey

Valued(rows, key) ==
    FilterSeq(rows, {r \in Range(rows) : ~IsNullish(FieldValue(r, key))})
Nullish(rows, key) ==
    FilterSeq(rows, {r \in Range(rows) : IsNullish(FieldValue(r, key))})

NullsLast(rows, key) ==
    \A i, j \in DOMAIN rows :
        (IsNullish(FieldValue(rows[i], key)) /\ ~IsNullish(FieldValue(rows[j], key)))
            => j < i

InOrder(rows, key, direction) ==
    \A i, j \in DOMAIN rows :
        (i < j /\ ~IsNullish(FieldValue(rows[i], key))
               /\ ~IsNullish(FieldValue(rows[j], key)))
            => IF direction = "asc"
               THEN FieldValue(rows[i], key).v <= FieldValue(rows[j], key).v
               ELSE FieldValue(rows[i], key).v >= FieldValue(rows[j], key).v

IsPermutationOf(after, before) ==
    /\ Len(after) = Len(before)
    /\ \A e \in Range(before) \cup Range(after) :
           Cardinality({i \in DOMAIN before : before[i] = e})
               = Cardinality({i \in DOMAIN after : after[i] = e})

\* C7: sorting by a column in a direction yields a permutation of the rows
\* with every null/undefined-valued row after every valued row, in both
\* directions, and the valued rows in non-decreasing (ascending) or
\* non-increasing (descending) order of the column.
C7_SortOrdersValuesNullsLast ==
    [][\A direction \in Directions :
          (SortClick(direction) /\ FindSortColumn(sortColumnId) # 0) =>
              /\ IsPermutationOf(data', data)
              /\ NullsLast(data', SortKeyOf(sortColumnId))
              /\ InOrder(data', SortKeyOf(sortColumnId), direction)]_vars

\* C7: the scenario of the claim, ages [a: 30, b: undefined, c: 25] sorted
\* ascending: [c, a, b].
C7_Witness ==
    /\ lastOp = "handleSort:asc"
    /\ data = <<[userId |-> 3, age |-> Num(25)],
                [userId |-> 1, age |-> Num(30)],
                [userId |-> 2, age |-> Undefined]>>

\* C8: sorting twice by the same column in the same direction gives the
\* same row order as sorting once.
C8_SortIdempotent ==
    \A col \in Range(dynamicColumns), direction \in Directions :
        LET once == JsSort(engine, data, col.accessorKey, direction)
        IN JsSort(engine, once, col.accessorKey, direction) = once

\* C9: when the values of a numeric column are all distinct, sorting
\* ascending and then descending gives the valued rows in exactly the
\* reverse of their ascending order (the whole collection reversed when no
\* value is missing), and the null/undefined-valued rows are last after
\* both sorts.
DistinctNumbers(rows, key) ==
    /\ \A i \in DOMAIN rows : FieldValue(rows[i], key).t \in {"number", "undefined"}
    /\ \A i, j \in DOMAIN rows :
           (i # j /\ ~IsNullish(FieldValue(rows[i], key)))
               => FieldValue(rows[i], key) # FieldValue(rows[j], key)

C9_AscThenDescReverses ==
    \A col \in Range(dynamicColumns) :
        DistinctNumbers(data, col.accessorKey) =>
            LET key        == col.accessorKey
                ascending  == JsSort(engine, data, key, "asc")
                descending == JsSort(engine, ascending, key, "desc")
            IN  /\ Valued(descending, key) = Reverse(Valued(ascending, key))
                /\ NullsLast(ascending, key)
                /\ NullsLast(descending, key)
                /\ Nullish(data, key) = <<>> => descending = Reverse(ascending)

\* C9: a descending sort has just followed an ascending one over three
\* distinct ages and a missing one.
C9_Witness ==
    /\ lastOp = "handleSort:desc"
    /\ Len(data) = 4
    /\ DistinctNumbers(data, "age")
    /\ Len(Valued(data, "age")) = 3
    /\ data = JsSort(engine, JsSort(engine, data, "age", "asc"), "age", "desc")

\* C10: two rows with equal values of the sort key keep the relative order
\* they had before the sort, in both directions.
C10_SortStable ==
    \A col \in Range(dynamicColumns), direction \in Directions :
        LET key    == col.accessorKey
            sorted == JsSort(engine, data, key, direction)
        IN \A i, j \in DOMAIN data :
               (i < j /\ FieldValue(data[i], key) = FieldValue(data[j], key))
                   => \E k, l \in DOMAIN sorted :
                          k < l /\ sorted[k] = data[i] /\ sorted[l] = data[j]

\* C11: a sort request whose column identifier resolves to no dynamic
\* column with a field accessor leaves the rows, the columns and the
\* selection exactly as they were.
C11_InvalidSortSkipped ==
    [][\A columnId \in SortRequestIds, direction \in Directions :
          (SortRequest(columnId, direction) /\ FindSortColumn(columnId) = 0)
              => UNCHANGED <<data, dynamicColumns, rowSelection>>]_vars

\* C11: an unresolved request has been made over two rows, one selected.
C11_Witness ==
    /\ lastOp = "handleSort:invalid"
    /\ Len(data) = 2
    /\ rowSelection # {}

\* C12: a drag end with no drop target, or whose drop target is the
\* dragged identifier itself, leaves the rows, the dynamic columns, the
\* selection mapping and the popover state unchanged.
C12_DragEndWithoutTarget ==
    [][\A over \in SortableIds \cup {NULL} :
          (DragEnd(over) /\ (over = NULL \/ over = dragging))
              => UNCHANGED <<data, dynamicColumns, rowSelection, showPopover,
                             targetColumnId, showSortPopover, sortColumnId>>]_vars

\* C12: such a drag has ended over two rows, with a row selected and the
\* popover open.
C12_Witness ==
    /\ lastOp = "onDragEnd:return"
    /\ Len(data) = 2
    /\ rowSelection # {}
    /\ showPopover

\* The identifier names a row, or a column, of the current sequences.
RowResolves(id) == \E i \in DOMAIN data : RowDragId(data[i].userId) = id
ColResolves(id) == \E i \in DOMAIN dynamicColumns : ColDragId(dynamicColumns[i].id) = id

\* Source and target both have a position in the sequence of the source.
ResolveInOwnSequence(source, target) ==
    \/ StartsWithRow(source) /\ RowResolves(source) /\ RowResolves(target)
    \/ StartsWithCol(source) /\ ColResolves(source) /\ ColResolves(target)

\* C13: a drag end whose source or target does not resolve to a position
\* in the source's own sequence (a row gone since the drag started, a
\* deleted column, a target of the other kind) reorders nothing: rows and
\* columns are left exactly as they were.
C13_UnresolvedDragEnd ==
    [][\A over \in SortableIds :
          (DragEnd(over) /\ ~ResolveInOwnSequence(dragging, over))
              => UNCHANGED <<data, dynamicColumns>>]_vars

\* C13: the drag of a row that is gone has ended over one of two or more
\* rows.
C13_Witness ==
    /\ lastOp = "onDragEnd:stale"
    /\ Len(data) >= 2

\* C14: the drag controller is idle exactly when no drag is in progress and
\* holds the dragged identifier while one is: drag start records it, and
\* every drag that has come to an end has returned the controller to idle.
C14_ControllerFollowsDrag == activeId = dragging

\* Level 2 is open only over an open level 1, on the same column.
PopoverConsistent ==
    showSortPopover => (showPopover /\ sortColumnId = targetColumnId)

\* The step closes a popover level that was open.
ClosesALevel ==
    \/ showPopover /\ ~showPopover'
    \/ showSortPopover /\ ~showSortPopover'

\* C15: whenever level 2 is open, level 1 is open too and on the same
\* column, so level 2 is never open alone; and every step that closes a
\* level leaves both levels closed.
C15_PopoverLevels ==
    /\ []PopoverConsistent
    /\ [][ClosesALevel => (~showPopover' /\ ~showSortPopover')]_vars

\* C15: whenever level 2 is open, level 1 is open too and on the same
\* column, so level 2 is never open alone; and every step that closes a
\* level leaves both levels closed, except a header click, which closes
\* level 2 and leaves level 1 open on the clicked column.
C15_PopoverLevelsButHeaderClick ==
    /\ []PopoverConsistent
    /\ [][ClosesALevel =>
             \/ ~showPopover' /\ ~showSortPopover'
             \/ \E colId \in ColumnIdUniverse :
                    /\ HandleHeaderClick(colId)
                    /\ showPopover' /\ ~showSortPopover'
                    /\ targetColumnId' = ColDragId(colId)]_vars

\* C15: a header has been clicked while level 2 was open on another column.
C15_Witness ==
    /\ lastOp = "handleHeaderClick:level2"
    /\ showPopover /\ ~showSortPopover
    /\ sortColumnId # targetColumnId

\* C16: the Delete action on column X removes X and only X from the
\* dynamic columns (one element fewer, the others in their order), leaves
\* the rows unchanged and closes both popover levels.
C16_DeleteRemovesOnlyX ==
    [][DeleteColumn =>
          /\ Len(dynamicColumns') = Len(dynamicColumns) - 1
          /\ \E i \in DOMAIN dynamicColumns :
                 /\ ColDragId(dynamicColumns[i].id) = targetColumnId
                 /\ dynamicColumns' = RemoveAt(dynamicColumns, i)
          /\ data' = data
          /\ ~showPopover' /\ ~showSortPopover']_vars

\* C17: after the Ascending or Descending action of level 2 opened on
\* column X, the rows are the rows sorted by X in the chosen direction and
\* both popover levels are closed.
C17_SortActionSortsAndCloses ==
    [][\A direction \in Directions :
          (SortClick(direction) /\ ColResolves(sortColumnId)) =>
              LET X == CHOOSE col \in Range(dynamicColumns) :
                           ColDragId(col.id) = sortColumnId
              IN  /\ IsPermutationOf(data', data)
                  /\ NullsLast(data', X.accessorKey)
                  /\ InOrder(data', X.accessorKey, direction)
                  /\ ~showPopover' /\ ~showSortPopover']_vars

\* C17: with two columns, two rows have been sorted by age, descending,
\* from level 2.
C17_Witness ==
    /\ lastOp = "handleSort:desc"
    /\ sortColumnId = ColDragId("age")
    /\ Len(dynamicColumns) = 2
    /\ Len(data) = 2
    /\ FieldValue(data[1], "age").v > FieldValue(data[2], "age").v
    /\ ~showPopover /\ ~showSortPopover

\* C18: a pointer-down whose target lies in neither popover surface,
\* received while level 1 or level 2 is open, leaves both levels closed.
C18_OutsideClickClosesBoth ==
    [][(HandleClickOutside("outside") /\ (showPopover \/ showSortPopover))
          => (~showPopover' /\ ~showSortPopover')]_vars

\* C18: the pointer went down outside both surfaces while level 2 was open.
C18_Witness ==
    /\ lastOp = "handleClickOutside:outside:level2"
    /\ ~showPopover /\ ~showSortPopover

C20_ListenerIffPopoverOpen ==
    /\ listening <=> (showPopover \/ showSortPopover)
    /\ lastOp = "deleteColumn:level2" =>
           /\ ~listening
           /\ \A where \in {"outside", "popover", "sortPopover"} :
                  ~ENABLED HandleClickOutside(where)

\* C20: a column has been deleted while level 2 was open.
C20_Witness ==
    /\ lastOp = "deleteColumn:level2"
    /\ ~showPopover /\ ~showSortPopover
    /\ ~listening

\* C21: in every reachable state, a popover level that is open is open on
\* a column of the current dynamic columns: level 1 on the column of
\* targetColumnId, level 2 on the column of sortColumnId.
C21_OpenPopoverColumnExists ==
    /\ showPopover => ColResolves(targetColumnId)
    /\ showSortPopover => ColResolves(sortColumnId)

\* C21: the column the popover was open on has been deleted, other columns
\* remain, and both levels are closed.
C21_Witness ==
    /\ lastOp \in {"deleteColumn", "deleteColumn:level2"}
    /\ ~ColResolves(targetColumnId)
    /\ dynamicColumns # <<>>
    /\ ~showPopover /\ ~showSortPopover

\* C22: with a non-empty row collection, the header checkbox toggling all
\* rows to selected makes getIsAllRowsSelected true for the current rows,
\* and toggling all rows to unselected makes getIsSomeRowsSelected false
\* for the current rows.
C22_ToggleAllSettles ==
    [][(ToggleAll /\ data # <<>>) =>
          IF GetIsAllRowsSelected(rowSelection, data)
          THEN ~GetIsSomeRowsSelected(rowSelection', data')
          ELSE GetIsAllRowsSelected(rowSelection', data')]_vars

\* The records of the rows whose identifier is a key of the selection.
SelectedRecords(selection, rows) == {r \in Range(rows) : r.userId \in selection}

\* C23: toggling the selection of one row or of all rows leaves the row
\* order and the column order unchanged; a drag end (rows or columns) and
\* a sort leave the selection mapping unchanged, and the selected records
\* are the same before and after.
C23_SelectionAndOrderIndependent ==
    [][/\ lastOp' \in {"toggleRow", "toggleAll"}
             => UNCHANGED <<data, dynamicColumns>>
       /\ lastOp' \in {"onDragEnd:rows", "onDragEnd:columns", "onDragEnd:return",
                       "onDragEnd:stale", "onDragEnd:unresolved",
                       "handleSort:asc", "handleSort:desc", "handleSort:invalid"}
             => /\ rowSelection' = rowSelection
                /\ SelectedRecords(rowSelection', data')
                       = SelectedRecords(rowSelection, data)]_vars

\* C23: one of two rows is selected and a row drag has moved it behind
\* the other one.
C23_Witness ==
    /\ lastOp = "onDragEnd:rows"
    /\ Len(data) = 2
    /\ data[1].userId > data[2].userId
    /\ rowSelection = {data[2].userId}

\* C24: in every reachable state the displayed columns are the handle
\* column followed by the dynamic columns: the handle column is first and
\* occurs once, its header takes no click, and no popover level and no drag
\* has it as its column.
C24_HandleColumnFirst ==
    /\ Columns[1] = DragHandleColumn
    /\ SubSeq(Columns, 2, Len(Columns)) = dynamicColumns
    /\ Cardinality({i \in DOMAIN Columns : Columns[i].id = DragHandleColumn.id}) = 1
    /\ DragHandleColumn.id \notin HeaderClickIds
    /\ ColDragId(DragHandleColumn.id)
           \notin {targetColumnId, sortColumnId, activeId, dragging} \cup SortableIds

\* C24: a column drag has moved the age column behind an added column; the
\* handle column is still first, before the two dynamic columns.
C24_Witness ==
    /\ lastOp = "onDragEnd:columns"
    /\ Len(Columns) = 3
    /\ Columns[1] = DragHandleColumn
    /\ Columns[3].id = "age"

\* C25: Add Column and Add Row each append one element at the end of
\* their own sequence: the elements before keep their positions, and the
\* other sequence, the selection mapping and the popover state are
\* unchanged.
C25_AddAppendsOne ==
    [][/\ AddDynamicColumn =>
             /\ Len(dynamicColumns') = Len(dynamicColumns) + 1
             /\ SubSeq(dynamicColumns', 1, Len(dynamicColumns)) = dynamicColumns
             /\ UNCHANGED <<data, rowSelection, showPopover, targetColumnId,
                            showSortPopover, sortColumnId>>
       /\ AddRow =>
             /\ Len(data') = Len(data) + 1
             /\ SubSeq(data', 1, Len(data)) = data
             /\ data'[Len(data')].userId \notin UserIds(data)
             /\ UNCHANGED <<dynamicColumns, rowSelection, showPopover,
                            targetColumnId, showSortPopover, sortColumnId>>]_vars

\* C25: a row has been added behind the first one while level 2 was open
\* and the first row was selected.
C25_Witness ==
    /\ lastOp = "addRow"
    /\ Len(data) = 2
    /\ rowSelection = {data[1].userId}
    /\ showPopover /\ showSortPopover

\* C26: the axis constraint is a function of activeId only: vertical when
\* activeId carries the row prefix, horizontal when it carries the column
\* prefix, none for an identifier with neither prefix, and none while
\* activeId is cleared.
C26_AxisFollowsActiveId ==
    /\ activeId = NULL => Modifiers = <<>>
    /\ activeId \in {RowDragId(u) : u \in RowIdUniverse}
           => Modifiers = <<"restrictToVerticalAxis">>
    /\ activeId \in {ColDragId(c) : c \in HeaderIdUniverse}
           => Modifiers = <<"restrictToHorizontalAxis">>
    /\ \A id \in HeaderIdUniverse \cup {NULL} : GetModifiersForDragId(id) = <<>>
    /\ dragging # NULL => Modifiers = GetModifiersForDragId(dragging)

\* C26: a column is being dragged on the horizontal axis, after a row drag
\* has ended.
C26_Witness ==
    /\ lastOp = "onDragStart"
    /\ activeId = ColDragId("age")
    /\ Modifiers = <<"restrictToHorizontalAxis">>
    /\ \E i \in DOMAIN RowIds : RowIds[i] # i

\* The current rows that are selected.
SelectedRows == {i \in DOMAIN data : data[i].userId \in rowSelection}

\* C27: the header checkbox shows indeterminate only when at least one but
\* not all of the rows are selected, and it is never both checked and
\* indeterminate.
C27_HeaderCheckboxTriState ==
    /\ HeaderCheckbox.indeterminate =>
           (SelectedRows # {} /\ SelectedRows # DOMAIN data)
    /\ ~(HeaderCheckbox.checked /\ HeaderCheckbox.indeterminate)

\* C28: a header click on dynamic column X, whatever the popover state
\* before it (closed, level 1 or level 2 open, on X or on another column),
\* leaves level 1 open on X and level 2 closed.
C28_HeaderClickOpensLevelOne ==
    [][\A colId \in HeaderIdUniverse :
          HandleHeaderClick(colId) =>
              /\ ColResolves(ColDragId(colId))
              /\ showPopover' /\ targetColumnId' = ColDragId(colId)
              /\ PopoverRendered'
              /\ ~showSortPopover' /\ ~SortPopoverRendered']_vars

\* C28: the header of the age column has been clicked while level 2 was
\* open on another column.
C28_Witness ==
    /\ lastOp = "handleHeaderClick:level2"
    /\ targetColumnId = ColDragId("age")
    /\ sortColumnId \notin {NULL, targetColumnId}
    /\ showPopover /\ ~showSortPopover

\* C29: the sort action of level 2 on a column whose value is
\* null/undefined on every row leaves the row order unchanged, ascending
\* and descending.
C29_AllNullSortKeepsOrder ==
    [][\A direction \in Directions :
          (/\ SortClick(direction)
           /\ ColResolves(sortColumnId)
           /\ \A i \in DOMAIN data :
                  IsNullish(FieldValue(data[i], SortKeyOf(sortColumnId))))
              => data' = data]_vars

====
